---- MODULE Spec2Model ----
(***************************************************************************)
(* TR proxy response cache: TrRepository (cache key, cached() wrapper,     *)
(* evict_cache, evict_all_caches_at_intervals), TrManager._get_tr_data     *)
(* (TTL tiers, not-evict codes) and KbsecTr's rule look-ups; main.py's     *)
(* middleware; the lambda that restarts the proxy's ECS tasks.             *)
(*                                                                         *)
(* The wrapper is modelled by its body, with the closure the decorator     *)
(* line names (tr_code = "dynamic", ttl = 0, the manager's repository) and *)
(* with params and continue_key paired by name with the caller's; the tier *)
(* _get_tr_data passes as a fourth argument reaches only the decorated     *)
(* function.  The collaborator is TrInterface.request as _get_tr_data      *)
(* calls it.  (Read literally, the decorator expression raises TypeError   *)
(* when tr_manager.py is imported, and KbsecTr implements request_tr, not  *)
(* request.)                                                               *)
(*                                                                         *)
(* Eight specifications share the state:                                   *)
(*   Spec      the proxy as TrManager wires it: every cached request goes  *)
(*             through the one wrapper built by cached("dynamic", 0);      *)
(*   SpecTiers the same proxy, one request at a time, by code or by alias, *)
(*             over every rule set;                                        *)
(*   SpecKeys  the same proxy, one code, over every parameter mapping;     *)
(*   SpecRepo  TrRepository on its own: wrappers built by cached(tr_code,  *)
(*             ttl) for any decorator arguments, plus evict_cache;         *)
(*   SpecKbsec the proxy with KbsecTr.request_tr as the collaborator, in   *)
(*             the local environment and with or without the gateway;      *)
(*   SpecHttp  the proxy behind main.py's API-key middleware;              *)
(*   SpecScheduler  the process life cycle (start, stop, restart) and the  *)
(*             scheduler's cron job against the wall clock (the other      *)
(*             specifications leave the time of day open: the job may run  *)
(*             at any instant);                                            *)
(*   SpecRestart  the restart lambda (restart_service/handler.py) and the  *)
(*             ECS service whose tasks it stops.                           *)
(***************************************************************************)
EXTENDS Integers, Sequences, FiniteSets, TLC

VARIABLES
    tr_rules,       \* KbsecTr.tr_rules: TR code -> rule, loaded at start-up
    cache,          \* TrRepository.cache: cache key -> response
    cache_expiry,   \* TrRepository.cache_expiry: cache key -> expiry time
    now,            \* asyncio event loop clock, loop.time()
    calls,          \* number of tr_impl.request invocations so far
    req,            \* in-flight requests, one record per slot
    tr_impl,        \* KbsecTr: environment (APP_ENV) and whether the gateway is set
    scheduler,      \* TrManager.scheduler: state and the job's next run time
    tag,            \* history: cache key -> who stored the entry, when, with what ttl
    lastOp,         \* history: "sweep" right after a full sweep, else "other"
    ecs,            \* the ECS service the restart lambda acts on: tasks, replacements
    handler         \* restart_service.lambda_handler: position and locals

vars == <<tr_rules, cache, cache_expiry, now, calls, req, tr_impl, scheduler, tag, lastOp,
          ecs, handler>>

(***************************************************************************)
(* Bounds                                                                  *)
(***************************************************************************)
MaxTime == 2        \* the clock runs 0..MaxTime
MaxCalls == 2       \* collaborator invocations per behaviour
MaxTasks == 4       \* tasks of the ECS service when the restart lambda is invoked

Requests == {1, 2}  \* slots for concurrently in-flight requests
Times == 0..MaxTime

None == "None"      \* Python's None

(***************************************************************************)
(* Parameter mappings: a Python dict is a sequence of key/value pairs in   *)
(* insertion order; a value is an int, a nested dict, or an object json    *)
(* has no encoding for (a set, bytes, an instance of a class).             *)
(***************************************************************************)
IntV(i) == [t |-> "int", i |-> i, d |-> <<>>]
DictV(d) == [t |-> "dict", i |-> 0, d |-> d]
ObjectV == [t |-> "object", i |-> 0, d |-> <<>>]
Pair(k, v) == [k |-> k, v |-> v]

P_ab == <<Pair("a", IntV(1)), Pair("b", IntV(2))>>
P_ba == <<Pair("b", IntV(2)), Pair("a", IntV(1))>>
P_nxy == <<Pair("n", DictV(<<Pair("x", IntV(1)), Pair("y", IntV(2))>>))>>
P_nyx == <<Pair("n", DictV(<<Pair("y", IntV(2)), Pair("x", IntV(1))>>))>>

P_obj == <<Pair("a", ObjectV)>>
P_nobj == <<Pair("n", DictV(<<Pair("x", ObjectV)>>))>>

ParamMappings == {P_ab, P_ba, P_nxy, P_nyx, P_obj, P_nobj}
ContinueKeys == {None, "c1"}

\* Python's str ordering on the parameter names in use.
KeyOrder == <<"a", "b", "n", "x", "y">>
KeyRank(k) == CHOOSE i \in 1..Len(KeyOrder) : KeyOrder[i] = k
StrLess(a, b) == KeyRank(a) < KeyRank(b)

\* sorted(params.items()): insertion of each item into the sorted prefix.
RECURSIVE InsertSorted(_, _)
InsertSorted(item, s) ==
    IF s = <<>> THEN <<item>>
    ELSE IF StrLess(item.k, Head(s).k) THEN <<item>> \o s
    ELSE <<Head(s)>> \o InsertSorted(item, Tail(s))

RECURSIVE SortedItems(_)
SortedItems(d) ==
    IF d = <<>> THEN <<>>
    ELSE InsertSorted(d[Len(d)], SortedItems(SubSeq(d, 1, Len(d) - 1)))

\* json.dumps raises TypeError unless every value, nested ones included, has an
\* encoding.
RECURSIVE json_serializable(_)
json_serializable(d) ==
    \A n \in 1..Len(d) :
        \/ d[n].v.t = "int"
        \/ d[n].v.t = "dict" /\ json_serializable(d[n].v.d)

\* json.dumps with the default separators; dict items in the order given.
RECURSIVE json_dumps(_)
RECURSIVE json_dumps_items(_)
json_dumps_items(d) ==
    IF d = <<>> THEN ""
    ELSE "\"" \o Head(d).k \o "\": "
         \o (IF Head(d).v.t = "int" THEN ToString(Head(d).v.i)
                                    ELSE json_dumps(Head(d).v.d))
         \o (IF Tail(d) = <<>> THEN "" ELSE ", " \o json_dumps_items(Tail(d)))
json_dumps(d) == "{" \o json_dumps_items(d) \o "}"

\* hashlib.sha256(...).hexdigest(): distinct strings give distinct digests.
sha256_hexdigest(s) == [sha256 |-> s]

\* As generate_cache_key_raises, with values json cannot encode passed over
\* (json.dumps(..., skipkeys/default) style).
generate_cache_key_raises_Never(params) == FALSE

\* TrRepository._generate_cache_key, line 77: json.dumps(sorted_params) raises.
generate_cache_key_raises(params) == ~json_serializable(SortedItems(params))

\* TrRepository._generate_cache_key
generate_cache_key(tr_code, params, continue_key) ==
    LET sorted_params == SortedItems(params)
        key_str == tr_code \o "_" \o json_dumps(sorted_params)
    IN  sha256_hexdigest(IF continue_key # None /\ continue_key # ""
                         THEN key_str \o "_" \o continue_key
                         ELSE key_str)

(***************************************************************************)
(* KbsecTr: rules, TTL look-up, not-evict codes                            *)
(***************************************************************************)
NotEvictCode == "KBI50130"
RequestCodes == {NotEvictCode, "KA100"}
ConfiguredCodes == {NotEvictCode, "KA100"}
RawTtls == {90000, 30000, 4000, 2000, 700, 65, 35, 12, 4, 2, 1, 0, -1}

\* cache-config.json as loaded by _load_cache_config: no rule at all (file missing
\* or malformed), rules that set no "ttl", or a ttl for each configured code; the
\* rule of KA100 names an alias, the other rule none.
RuleOrder == <<NotEvictCode, "KA100">>     \* the order of the rules in the file
AliasOf(c) == IF c = "KA100" THEN "quote" ELSE ""
RequestAliases == {"quote", "nope", ""}
RulesWithTtl(t) ==
    [c \in ConfiguredCodes |-> [has_ttl |-> TRUE, ttl |-> t, alias |-> AliasOf(c)]]
RulesWithoutTtl ==
    [c \in ConfiguredCodes |-> [has_ttl |-> FALSE, ttl |-> 0, alias |-> AliasOf(c)]]
\* Both rules name the alias "quote"; and only the first rule names it, the
\* second has "alias": "".
RulesSharingAlias ==
    [c \in ConfiguredCodes |-> [has_ttl |-> TRUE, ttl |-> 12, alias |-> "quote"]]
RulesFirstAliasOnly ==
    [c \in ConfiguredCodes |->
        [has_ttl |-> TRUE, ttl |-> 12,
         alias |-> IF c = RuleOrder[1] THEN "quote" ELSE ""]]

\* schema/cache-config.json as KbsecTr finds it at start-up: absent, present but
\* not parseable (json.load raises), or holding the given rules.
MissingFile == [exists |-> FALSE, parses |-> FALSE, content |-> <<>>]
MalformedFile == [exists |-> TRUE, parses |-> FALSE, content |-> <<>>]
ConfigFile(rules) == [exists |-> TRUE, parses |-> TRUE, content |-> rules]
ConfigFiles == {MissingFile, MalformedFile, ConfigFile(RulesWithoutTtl),
                ConfigFile(RulesSharingAlias), ConfigFile(RulesFirstAliasOnly)}
                   \cup {ConfigFile(RulesWithTtl(t)) : t \in RawTtls}

\* KbsecTr._load_cache_config: the parsed file, or {} when the file does not exist
\* or anything raises.
load_cache_config(file) ==
    IF file.exists /\ file.parses THEN file.content ELSE <<>>

RuleSets == {load_cache_config(file) : file \in ConfigFiles}
\* The rule sets the concurrent specification starts from: one that sends the
\* configured codes past the cache and one that caches them.
FewRuleSets == {RulesWithTtl(0), RulesWithTtl(12)}

get_cache_ttl(rules, tr_code) ==
    IF tr_code \in DOMAIN rules /\ rules[tr_code].has_ttl THEN rules[tr_code].ttl
    ELSE 30

get_not_evict_tr_codes == {NotEvictCode}

\* KbsecTr.__init__, lines 36-40: alias_mapping is filled rule by rule in the order
\* of the file; a later rule with the same alias replaces the earlier one.
\* As alias_mapping_from, with the first rule of an alias kept.
alias_mapping_from_FirstWins(rules, order) ==
    LET names(n, a) == order[n] \in DOMAIN rules /\ rules[order[n]].alias = a
        declared == {rules[order[n]].alias :
                        n \in {m \in 1..Len(order) :
                                  order[m] \in DOMAIN rules /\ rules[order[m]].alias # ""}}
    IN  [a \in declared |->
            order[CHOOSE n \in 1..Len(order) :
                      names(n, a) /\ \A m \in 1..(n - 1) : ~names(m, a)]]

RECURSIVE alias_mapping_from(_, _)
alias_mapping_from(rules, order) ==
    IF order = <<>> THEN [a \in {} |-> None]
    ELSE LET key == order[Len(order)]
             before == alias_mapping_from(rules, SubSeq(order, 1, Len(order) - 1))
         IN  IF key \in DOMAIN rules /\ rules[key].alias # ""
             THEN (rules[key].alias :> key) @@ before
             ELSE before

alias_mapping(rules) == alias_mapping_from(rules, RuleOrder)

\* KbsecTr.get_tr_code_by_alias: alias_mapping.get(alias)
get_tr_code_by_alias(rules, alias) ==
    IF alias \in DOMAIN alias_mapping(rules) THEN alias_mapping(rules)[alias] ELSE None


\* TrManager._get_tr_data, lines 134-160: which way a request goes, and the ttl it
\* hands to _get_tr_data_cached.
CachedWith(ttl) == [path |-> "cached", ttl |-> ttl]
Uncached == [path |-> "direct", ttl |-> 0]

\* As get_tr_data_branch, without the `elif ttl == 0` branch.
get_tr_data_branch_NoZero(tr_code, ttl) ==
    IF tr_code \in get_not_evict_tr_codes THEN CachedWith(86400)
    ELSE IF ttl >= 28800 THEN CachedWith(28800)
    ELSE IF ttl >= 3600 THEN CachedWith(3600)
    ELSE IF ttl >= 1800 THEN CachedWith(1800)
    ELSE IF ttl >= 600 THEN CachedWith(600)
    ELSE IF ttl >= 60 THEN CachedWith(60)
    ELSE IF ttl >= 30 THEN CachedWith(30)
    ELSE IF ttl >= 10 THEN CachedWith(10)
    ELSE IF ttl >= 3 THEN CachedWith(3)
    ELSE IF ttl >= 2 THEN CachedWith(2)
    ELSE CachedWith(30)

get_tr_data_branch(tr_code, ttl) ==
    IF tr_code \in get_not_evict_tr_codes THEN CachedWith(86400)
    ELSE IF ttl >= 28800 THEN CachedWith(28800)
    ELSE IF ttl >= 3600 THEN CachedWith(3600)
    ELSE IF ttl >= 1800 THEN CachedWith(1800)
    ELSE IF ttl >= 600 THEN CachedWith(600)
    ELSE IF ttl >= 60 THEN CachedWith(60)
    ELSE IF ttl >= 30 THEN CachedWith(30)
    ELSE IF ttl >= 10 THEN CachedWith(10)
    ELSE IF ttl >= 3 THEN CachedWith(3)
    ELSE IF ttl >= 2 THEN CachedWith(2)
    ELSE IF ttl = 0 THEN Uncached
    ELSE CachedWith(30)

\* The arguments of the one decorator in the program: @TrRepository.cached("dynamic", 0).
DecoratorTrCode == "dynamic"
DecoratorTtl == 0

\* Decorator arguments TrRepository is exercised with on its own (SpecRepo).
RepoTrCodes == {NotEvictCode, "KA100"}
RepoTtls == {0, 2}
\* Arguments evict_cache is called with: none, or the name of a code.
EvictSelectors == {None, "KA100"}

(***************************************************************************)
(* TrRepository                                                            *)
(***************************************************************************)
\* CACHE_TTL_MAP: cache name -> ttl in seconds
CACHE_TTL_MAP ==
    [name \in {"cache2Sec", "cache3Sec", "cache10Sec", "cache30Sec", "cache60Sec",
               "cache10Min", "cache30Min", "cache1Hour", "cache8Hour",
               "cache24HourWithoutEvict"} |->
        CASE name = "cache2Sec" -> 2
          [] name = "cache3Sec" -> 3
          [] name = "cache10Sec" -> 10
          [] name = "cache30Sec" -> 30
          [] name = "cache60Sec" -> 60
          [] name = "cache10Min" -> 600
          [] name = "cache30Min" -> 1800
          [] name = "cache1Hour" -> 3600
          [] name = "cache8Hour" -> 28800
          [] name = "cache24HourWithoutEvict" -> 86400]

\* TrRepository.get_cache_name_by_ttl
get_cache_name_by_ttl(ttl) ==
    IF ttl >= 86400 THEN "cache24HourWithoutEvict"
    ELSE IF ttl >= 28800 THEN "cache8Hour"
    ELSE IF ttl >= 3600 THEN "cache1Hour"
    ELSE IF ttl >= 1800 THEN "cache30Min"
    ELSE IF ttl >= 600 THEN "cache10Min"
    ELSE IF ttl >= 60 THEN "cache60Sec"
    ELSE IF ttl >= 30 THEN "cache30Sec"
    ELSE IF ttl >= 10 THEN "cache10Sec"
    ELSE IF ttl >= 3 THEN "cache3Sec"
    ELSE IF ttl >= 2 THEN "cache2Sec"
    ELSE "cache30Sec"

EmptyMap == [k \in {} |-> 0]
Restrict(f, S) == [k \in S |-> f[k]]
\* As Put, with the assignment left out.
Put_Dropped(f, k, v) == f

Put(f, k, v) == (k :> v) @@ f

\* As CacheHit, with `>=` for `>`.
CacheHit_Inclusive(c, e, cache_key, current_time) ==
    /\ cache_key \in DOMAIN c
    /\ (cache_key \notin DOMAIN e \/ e[cache_key] >= current_time)

\* wrapper, line 140: the hit test against the clock value read on entry.
CacheHit(c, e, cache_key, current_time) ==
    /\ cache_key \in DOMAIN c
    /\ (cache_key \notin DOMAIN e \/ e[cache_key] > current_time)

\* wrapper, line 149: the expiry written with the entry; current_time is the clock
\* value read on entry, before the decorated function was awaited.
StoreExpiry(current_time, ttl) == current_time + ttl

\* evict_all_caches_at_intervals, line 197: `not_evict_code in key` is a substring
\* test on the hex digest; a code can occur in it only if all its characters are
\* hexadecimal digits in lower case.
HexDigits == {"0", "1", "2", "3", "4", "5", "6", "7", "8", "9",
              "a", "b", "c", "d", "e", "f"}
CodeChars(code) == IF code = NotEvictCode THEN {"K", "B", "I", "5", "0", "1", "3"}
                   ELSE {}
is_excluded(key, not_evict_tr_codes) ==
    \E code \in not_evict_tr_codes :
        /\ CodeChars(code) # {}
        /\ CodeChars(code) \subseteq HexDigits

\* As SweepKeysToDelete, with the test inverted (`if is_excluded`).
SweepKeysToDelete_Inverted(c) ==
    {key \in DOMAIN c : is_excluded(key, get_not_evict_tr_codes)}

\* evict_all_caches_at_intervals, lines 194-199
SweepKeysToDelete(c) ==
    {key \in DOMAIN c : ~is_excluded(key, get_not_evict_tr_codes)}

\* As ExpiredKeys, with `<` for `<=`.
ExpiredKeys_Strict(e, current_time) ==
    {key \in DOMAIN e : e[key] < current_time}

\* evict_cache, lines 170-175
ExpiredKeys(e, current_time) ==
    {key \in DOMAIN e : e[key] <= current_time}

\* As delete_from_cache, with the first `del` left out.
delete_from_cache_Skipped(c, keys_to_delete) == c

\* evict_cache lines 178-182 and evict_all_caches_at_intervals lines 202-206: every
\* key to delete is taken out of the cache and out of the expiry map.
delete_from_cache(c, keys_to_delete) == Restrict(c, DOMAIN c \ keys_to_delete)

\* As delete_from_cache_expiry, with the second `del` left out.
delete_from_cache_expiry_Skipped(e, keys_to_delete) == e

delete_from_cache_expiry(e, keys_to_delete) == Restrict(e, DOMAIN e \ keys_to_delete)

(***************************************************************************)
(* TrManager.scheduler: one job, 'cron' with hour=8, minute=0, second=0.   *)
(* An instant of the clock is one of DayLength readings of the wall clock; *)
(* reading 0 of each day is 08:00:00.  A scheduler with timed = FALSE      *)
(* leaves the time of day of the instants open: its job may be due at any  *)
(* instant.                                                                *)
(***************************************************************************)
DayLength == 2      \* instants per day

TimeOfDay(t) == IF t % DayLength = 0 THEN "08:00:00" ELSE "other"

\* As CronJobTime, with another hour.
CronJobTime_OtherHour == "other"

\* add_job(..., 'cron', hour=8, minute=0, second=0)
CronJobTime == "08:00:00"

cron_matches(t) == TimeOfDay(t) = CronJobTime

\* The first instant from t on that the trigger matches.
FirstMatchFrom(t) ==
    CHOOSE u \in t..(t + DayLength) :
        /\ cron_matches(u)
        /\ \A v \in t..(u - 1) : ~cron_matches(v)

\* As get_next_fire_time, counting from one day back.
get_next_fire_time_Backfill(t) == FirstMatchFrom(t + 1 - DayLength)

\* The trigger's next fire time after instant t: computed from the current time
\* when the scheduler starts, and from the run time after each run.
get_next_fire_time(t) == FirstMatchFrom(t + 1)

SchedulerInitialized ==
    [state |-> "initialized", timed |-> TRUE, next_run_time |-> 0, started_at |-> 0,
     job_runs |-> <<>>]
\* A started scheduler whose job may be due at any instant.
SchedulerUntimed == [SchedulerInitialized EXCEPT !.state = "running", !.timed = FALSE]

JobDue ==
    /\ scheduler.state = "running"
    /\ scheduler.timed => scheduler.next_run_time <= now

\* Requests are served between startup_event and shutdown_event.
Serving == scheduler.state = "running"

(***************************************************************************)
(* KbsecTr.request_tr: the mock in the local environment, else the real    *)
(* request through the Java gateway.                                       *)
(***************************************************************************)
TrImpls == {[environment |-> "local", gateway |-> FALSE],
            [environment |-> "dev", gateway |-> FALSE],
            [environment |-> "dev", gateway |-> TRUE]}
\* APP_ENV unset: "local", no gateway.
DefaultTrImpl == [environment |-> "local", gateway |-> FALSE]

\* What request_tr does when _execute_java_tr_request succeeds (java_ok) or raises.
request_tr_outcome(impl, java_ok) ==
    IF impl.environment = "local" THEN "200"
    ELSE IF ~impl.gateway THEN "raise"
    ELSE IF java_ok THEN "200"
    ELSE "500"

(***************************************************************************)
(* Requests                                                                *)
(***************************************************************************)
NoKey == sha256_hexdigest("")
NoValue == [id |-> 0, tr_code |-> None, params |-> <<>>, continue_key |-> None,
            resultCode |-> None]

IdleReq ==
    [pc |-> "idle", tr_code |-> None, params |-> <<>>, continue_key |-> None,
     path |-> None, ttl_arg |-> 0, deco_ttl |-> 0, cache_key |-> NoKey,
     current_time |-> 0, lookups |-> 0, hit |-> FALSE, ncalls |-> 0, call_id |-> 0,
     stored |-> FALSE, result |-> NoValue, done_at |-> 0, swept |-> FALSE,
     status |-> 0]

(***************************************************************************)
(* Actions                                                                 *)
(***************************************************************************)
\* The status the endpoint's caller sees: a returned value is 200; TrManager raises
\* HTTPException(404) for an unknown alias and HTTPException(500) for any other
\* exception; the endpoint's `except Exception` turns whatever was raised,
\* HTTPException included, into HTTPException(500).
HttpOk == 200
AliasNotFoundStatus == 404
ManagerErrorStatus == 500
endpoint_status(raised_status) == 500

\* wrapper, lines 134-145: key, clock, look-up; a hit returns the cached value at
\* once, a miss awaits the decorated function, which awaits tr_impl.request.
WrapperEnter(r, tr_code, params, continue_key, ttl_arg, deco_code, deco_ttl) ==
    LET cache_key == generate_cache_key(deco_code, params, continue_key)
        current_time == now
        hit == CacheHit(cache, cache_expiry, cache_key, current_time)
        entered == [IdleReq EXCEPT
                      !.tr_code = tr_code, !.params = params,
                      !.continue_key = continue_key, !.path = "cached",
                      !.ttl_arg = ttl_arg, !.deco_ttl = deco_ttl,
                      !.cache_key = cache_key, !.current_time = current_time,
                      !.lookups = 1, !.hit = hit]
    IN  IF generate_cache_key_raises(params)
        THEN \* _generate_cache_key raises at line 77, before the look-up
             /\ req' = [req EXCEPT ![r] = [IdleReq EXCEPT
                           !.pc = "failed", !.tr_code = tr_code, !.params = params,
                           !.continue_key = continue_key, !.path = "cached",
                           !.ttl_arg = ttl_arg, !.deco_ttl = deco_ttl,
                           !.status = endpoint_status(ManagerErrorStatus)]]
             /\ calls' = calls
        ELSE IF hit
        THEN /\ req' = [req EXCEPT ![r] = [entered EXCEPT !.pc = "done",
                                                         !.result = cache[cache_key],
                                                         !.done_at = now,
                                                         !.status = HttpOk]]
             /\ calls' = calls
        ELSE /\ calls < MaxCalls
             /\ req' = [req EXCEPT ![r] = [entered EXCEPT !.pc = "awaiting",
                                                         !.ncalls = 1,
                                                         !.call_id = calls + 1]]
             /\ calls' = calls + 1

\* A new request takes the lowest free slot (the slots are interchangeable).
Free(r) ==
    /\ req[r].pc = "idle"
    /\ \A q \in Requests : q < r => req[q].pc # "idle"

\* get_tr_data_by_code -> _get_tr_data, up to the first suspension or the return.
GetTrData(r, tr_code, params, continue_key) ==
    LET ttl == get_cache_ttl(tr_rules, tr_code)
        branch == get_tr_data_branch(tr_code, ttl)
    IN  /\ Free(r)
        /\ Serving
        /\ IF branch.path = "direct"
           THEN /\ calls < MaxCalls
                /\ req' = [req EXCEPT ![r] = [IdleReq EXCEPT
                              !.pc = "awaiting", !.tr_code = tr_code,
                              !.params = params, !.continue_key = continue_key,
                              !.path = "direct", !.current_time = now,
                              !.ncalls = 1, !.call_id = calls + 1]]
                /\ calls' = calls + 1
           ELSE WrapperEnter(r, tr_code, params, continue_key, branch.ttl,
                             DecoratorTrCode, DecoratorTtl)
        /\ lastOp' = "other"
        /\ UNCHANGED <<ecs, handler, tr_rules, tr_impl, scheduler, cache, cache_expiry, now, tag>>

\* The alias endpoints -> get_tr_data_by_alias: an alias without code raises
\* HTTPException(404) before get_tr_data_by_code is called.
GetTrDataByAlias(r, alias, params, continue_key) ==
    LET tr_code == get_tr_code_by_alias(tr_rules, alias)
    IN  IF tr_code = None
        THEN /\ Free(r)
             /\ Serving
             /\ req' = [req EXCEPT ![r] = [IdleReq EXCEPT
                           !.pc = "failed", !.params = params,
                           !.continue_key = continue_key, !.path = "notfound",
                           !.status = endpoint_status(AliasNotFoundStatus)]]
             /\ lastOp' = "other"
             /\ UNCHANGED <<ecs, handler, tr_rules, tr_impl, scheduler, cache, cache_expiry, now,
                            calls, tag>>
        ELSE GetTrData(r, tr_code, params, continue_key)

\* As CachedCall, with an entry the look-up finds expired deleted at once.
CachedCall_Purging(r, tr_code, ttl, params, continue_key) ==
    LET expired == {generate_cache_key(tr_code, params, continue_key)}
                       \cap ExpiredKeys(cache_expiry, now)
    IN  /\ Free(r)
        /\ WrapperEnter(r, tr_code, params, continue_key, ttl, tr_code, ttl)
        /\ cache' = delete_from_cache(cache, expired)
        /\ cache_expiry' = delete_from_cache_expiry(cache_expiry, expired)
        /\ tag' = Restrict(tag, DOMAIN tag \ expired)
        /\ lastOp' = "other"
        /\ UNCHANGED <<ecs, handler, tr_rules, tr_impl, scheduler, now>>

\* A function decorated with cached(tr_code, ttl) is called.
CachedCall(r, tr_code, ttl, params, continue_key) ==
    /\ Free(r)
    /\ WrapperEnter(r, tr_code, params, continue_key, ttl, tr_code, ttl)
    /\ lastOp' = "other"
    /\ UNCHANGED <<ecs, handler, tr_rules, tr_impl, scheduler, cache, cache_expiry, now, tag>>

\* As ReturnWith, with the store left out when a request that asked the
\* collaborator later has already been answered and swept.
ReturnWith_DropOvertaken(r, resultCode) ==
    LET q == req[r]
        result == [id |-> q.call_id, tr_code |-> q.tr_code, params |-> q.params,
                   continue_key |-> q.continue_key, resultCode |-> resultCode]
        overtaken == \E p \in Requests : /\ req[p].pc = "done" /\ req[p].swept
                                          /\ req[p].call_id > q.call_id
        stores == q.path = "cached" /\ ~overtaken
    IN  /\ q.pc = "awaiting"
        /\ req' = [req EXCEPT ![r].pc = "done", ![r].result = result,
                              ![r].stored = stores, ![r].done_at = now,
                              ![r].status = HttpOk]
        /\ IF stores
           THEN /\ cache' = Put(cache, q.cache_key, result)
                /\ cache_expiry' = Put(cache_expiry, q.cache_key,
                                       StoreExpiry(q.current_time, q.deco_ttl))
                /\ tag' = Put(tag, q.cache_key,
                              [tr_code |-> q.tr_code, at |-> now, ttl |-> q.deco_ttl,
                               ttl_arg |-> q.ttl_arg])
           ELSE UNCHANGED <<cache, cache_expiry, tag>>
        /\ lastOp' = "other"
        /\ UNCHANGED <<ecs, handler, tr_rules, tr_impl, scheduler, now, calls>>

\* The awaited collaborator returns a response with the given resultCode; on the
\* cached path the wrapper stores it (lines 148-149) and returns it.
ReturnWith(r, resultCode) ==
    LET q == req[r]
        result == [id |-> q.call_id, tr_code |-> q.tr_code, params |-> q.params,
                   continue_key |-> q.continue_key, resultCode |-> resultCode]
    IN  /\ q.pc = "awaiting"
        /\ req' = [req EXCEPT ![r].pc = "done", ![r].result = result,
                              ![r].stored = (q.path = "cached"), ![r].done_at = now,
                              ![r].status = HttpOk]
        /\ IF q.path = "cached"
           THEN /\ cache' = Put(cache, q.cache_key, result)
                /\ cache_expiry' = Put(cache_expiry, q.cache_key,
                                       StoreExpiry(q.current_time, q.deco_ttl))
                /\ tag' = Put(tag, q.cache_key,
                              [tr_code |-> q.tr_code, at |-> now, ttl |-> q.deco_ttl,
                               ttl_arg |-> q.ttl_arg])
           ELSE UNCHANGED <<cache, cache_expiry, tag>>
        /\ lastOp' = "other"
        /\ UNCHANGED <<ecs, handler, tr_rules, tr_impl, scheduler, now, calls>>

\* tr_impl.request returns a normal response.
CollaboratorReturns(r) == ReturnWith(r, "200")

\* As CollaboratorRaises, with the failed call made again.
CollaboratorRaises_Retry(r) ==
    /\ req[r].pc = "awaiting"
    /\ calls < MaxCalls
    /\ req' = [req EXCEPT ![r].ncalls = @ + 1]
    /\ calls' = calls + 1
    /\ lastOp' = "other"
    /\ UNCHANGED <<ecs, handler, tr_rules, tr_impl, scheduler, cache, cache_expiry, now, tag>>

\* As CollaboratorRaises, with the store made before the failure is known.
CollaboratorRaises_AfterStore(r) ==
    /\ req[r].pc = "awaiting"
    /\ req' = [req EXCEPT ![r].pc = "failed",
                          ![r].status = endpoint_status(ManagerErrorStatus)]
    /\ cache' = Put(cache, req[r].cache_key, NoValue)
    /\ cache_expiry' = Put(cache_expiry, req[r].cache_key,
                           StoreExpiry(req[r].current_time, req[r].deco_ttl))
    /\ tag' = Put(tag, req[r].cache_key,
                  [tr_code |-> req[r].tr_code, at |-> now, ttl |-> req[r].deco_ttl,
                   ttl_arg |-> req[r].ttl_arg])
    /\ lastOp' = "other"
    /\ UNCHANGED <<ecs, handler, tr_rules, tr_impl, scheduler, now, calls>>

\* tr_impl.request raises; get_tr_data_by_code turns it into HTTPException(500),
\* and so does the endpoint.
CollaboratorRaises(r) ==
    /\ req[r].pc = "awaiting"
    /\ req' = [req EXCEPT ![r].pc = "failed",
                          ![r].status = endpoint_status(ManagerErrorStatus)]
    /\ lastOp' = "other"
    /\ UNCHANGED <<ecs, handler, tr_rules, tr_impl, scheduler, cache, cache_expiry, now, calls, tag>>

\* The request's task is cancelled while it awaits the collaborator (the client
\* went away, a caller's timeout): CancelledError leaves the wrapper at line 145
\* and passes `except Exception`; nothing is delivered.
RequestCancelled(r) ==
    /\ req[r].pc = "awaiting"
    /\ req' = [req EXCEPT ![r] = IdleReq]
    /\ lastOp' = "other"
    /\ UNCHANGED <<ecs, handler, tr_rules, tr_impl, scheduler, cache, cache_expiry, now, calls, tag>>

\* KbsecTr.request_tr as the collaborator.
KbsecRequestTr(r, java_ok) ==
    LET outcome == request_tr_outcome(tr_impl, java_ok)
    IN  IF outcome = "raise" THEN CollaboratorRaises(r)
        ELSE ReturnWith(r, outcome)

\* The response (or the failure) has been delivered; the slot is free again.
Finish(r) ==
    /\ req[r].pc \in {"done", "failed"}
    /\ req' = [req EXCEPT ![r] = IdleReq]
    /\ lastOp' = "other"
    /\ UNCHANGED <<ecs, handler, tr_rules, tr_impl, scheduler, cache, cache_expiry, now, calls, tag>>

\* The clock advances; a running scheduler's timer goes off before the clock
\* passes the job's run time.  (Against the wall clock the clock runs one instant
\* further, so that it leaves the last instant of 0..MaxTime too.)
Tick ==
    /\ now < MaxTime + (IF scheduler.timed THEN 1 ELSE 0)
    /\ ~(scheduler.timed /\ JobDue)
    /\ now' = now + 1
    /\ lastOp' = "other"
    /\ UNCHANGED <<ecs, handler, tr_rules, tr_impl, scheduler, cache, cache_expiry, calls, req, tag>>

\* TrRepository.evict_all_caches_at_intervals, run by the scheduler's cron job.
EvictAllCachesAtIntervals ==
    LET keys_to_delete == SweepKeysToDelete(cache)
    IN  /\ JobDue
        /\ cache' = delete_from_cache(cache, keys_to_delete)
        /\ cache_expiry' = delete_from_cache_expiry(cache_expiry, keys_to_delete)
        /\ tag' = Restrict(tag, DOMAIN tag \ keys_to_delete)
        /\ req' = [r \in Requests |->
                      IF req[r].pc = "done" THEN [req[r] EXCEPT !.swept = TRUE]
                      ELSE req[r]]
        /\ scheduler' =
              IF scheduler.timed
              THEN [scheduler EXCEPT
                      !.next_run_time = get_next_fire_time(now),
                      !.job_runs = Append(@, [at |-> now,
                                              due |-> scheduler.next_run_time,
                                              since |-> scheduler.started_at])]
              ELSE scheduler
        /\ lastOp' = "sweep"
        /\ UNCHANGED <<ecs, handler, tr_rules, tr_impl, now, calls>>

\* TrRepository.evict_cache(cache_name)
EvictCache(cache_name) ==
    LET keys_to_delete == ExpiredKeys(cache_expiry, now)
    IN  /\ cache' = delete_from_cache(cache, keys_to_delete)
        /\ cache_expiry' = delete_from_cache_expiry(cache_expiry, keys_to_delete)
        /\ tag' = Restrict(tag, DOMAIN tag \ keys_to_delete)
        /\ lastOp' = "other"
        /\ UNCHANGED <<ecs, handler, tr_rules, tr_impl, scheduler, now, calls, req>>

\* startup_event -> TrManager.start -> scheduler.start()
ManagerStart ==
    /\ scheduler.state = "initialized"
    /\ scheduler' = [scheduler EXCEPT !.state = "running",
                                      !.next_run_time = get_next_fire_time(now),
                                      !.started_at = now]
    /\ lastOp' = "other"
    /\ UNCHANGED <<ecs, handler, tr_rules, tr_impl, cache, cache_expiry, now, calls, req, tag>>

\* shutdown_event -> TrManager.stop -> scheduler.shutdown(), once the requests in
\* flight have been answered and a job whose timer has gone off has run.
ManagerStop ==
    /\ scheduler.state = "running"
    /\ ~(scheduler.timed /\ JobDue)
    /\ \A r \in Requests : req[r].pc = "idle"
    /\ scheduler' = [scheduler EXCEPT !.state = "shutdown"]
    /\ lastOp' = "other"
    /\ UNCHANGED <<ecs, handler, tr_rules, tr_impl, cache, cache_expiry, now, calls, req, tag>>

\* The process is started again: main.py builds a new TrManager (empty repository,
\* a new scheduler with the one job).
ProcessRestart ==
    /\ scheduler.state = "shutdown"
    /\ scheduler' = [scheduler EXCEPT !.state = "initialized"]
    /\ cache' = EmptyMap
    /\ cache_expiry' = EmptyMap
    /\ tag' = EmptyMap
    /\ lastOp' = "other"
    /\ UNCHANGED <<ecs, handler, tr_rules, tr_impl, now, calls, req>>

(***************************************************************************)
(* main.py: the API-key middleware in front of the routes.  A URL path is  *)
(* the sequence of its characters.                                         *)
(***************************************************************************)
PathRoot == <<"/">>
PathDocs == <<"/", "d", "o", "c", "s">>
PathRedoc == <<"/", "r", "e", "d", "o", "c">>
PathOpenapi == <<"/", "o", "p", "e", "n", "a", "p", "i", ".", "j", "s", "o", "n">>
PathHealth == <<"/", "p", "r", "o", "x", "y", "/", "h", "e", "a", "l", "t", "h">>
\* "/proxy/api/kb/", the route of get_tr_data_by_code up to the path parameter
TrCodeRoute == <<"/", "p", "r", "o", "x", "y", "/", "a", "p", "i", "/", "k", "b", "/">>
CodeString(tr_code) ==
    IF tr_code = NotEvictCode THEN <<"K", "B", "I", "5", "0", "1", "3", "0">>
    ELSE <<"K", "A", "1", "0", "0">>
TrCodePath(tr_code) == TrCodeRoute \o CodeString(tr_code)

\* The paths requests are made to, and the values of the X-API-KEY header they
\* carry (None: no such header).
HttpPaths == {PathRoot, PathHealth} \cup {TrCodePath(tr_code) : tr_code \in RequestCodes}
AUTH_TOKEN == "default-api-key"
ApiKeyHeaders == {AUTH_TOKEN, "some-other-key", None}

\* str.startswith
startswith(str, prefix) ==
    /\ Len(prefix) <= Len(str)
    /\ SubSeq(str, 1, Len(prefix)) = prefix

public_paths == <<PathRoot, PathDocs, PathRedoc, PathOpenapi, PathHealth>>

\* api_key_middleware, line 88
is_public_path(path) ==
    \E n \in 1..Len(public_paths) : startswith(path, public_paths[n])

ForbiddenStatus == 403

\* api_key_middleware, lines 88-100: it hands the request on (call_next), or
\* answers it itself with a JSONResponse.
CallNext == [call_next |-> TRUE, status_code |-> 0]
JSONResponse(status_code) == [call_next |-> FALSE, status_code |-> status_code]
api_key_middleware(path, request_api_key) ==
    IF is_public_path(path) THEN CallNext
    ELSE IF request_api_key # AUTH_TOKEN THEN JSONResponse(ForbiddenStatus)
    ELSE CallNext

\* One HTTP request: the middleware, then the route of the path: the two health
\* checks answer "ok", /proxy/api/kb/{tr_code} calls get_tr_data_by_code with the
\* body as parameters.
HttpRequest(r, path, request_api_key) ==
    IF ~api_key_middleware(path, request_api_key).call_next
    THEN /\ Free(r)
         /\ Serving
         /\ req' = [req EXCEPT ![r] = [IdleReq EXCEPT
                       !.pc = "failed", !.path = "forbidden",
                       !.status = api_key_middleware(path, request_api_key).status_code]]
         /\ lastOp' = "other"
         /\ UNCHANGED <<ecs, handler, tr_rules, tr_impl, scheduler, cache, cache_expiry, now,
                        calls, tag>>
    ELSE IF path \in {PathRoot, PathHealth}
    THEN /\ Free(r)
         /\ Serving
         /\ req' = [req EXCEPT ![r] = [IdleReq EXCEPT !.pc = "done",
                                                      !.path = "health",
                                                      !.done_at = now,
                                                      !.status = HttpOk]]
         /\ lastOp' = "other"
         /\ UNCHANGED <<ecs, handler, tr_rules, tr_impl, scheduler, cache, cache_expiry, now,
                        calls, tag>>
    ELSE \E tr_code \in RequestCodes :
             /\ path = TrCodePath(tr_code)
             /\ GetTrData(r, tr_code, P_ab, None)

(***************************************************************************)
(* restart_service/handler.py: lambda_handler stops the tasks of the ECS   *)
(* service one by one.  The service's tasks are numbered; a task is        *)
(* "running", "stopping" (stop_task was called, the container has not      *)
(* exited yet) or "stopped"; the service scheduler starts a replacement    *)
(* for a stopped task.  list_tasks is taken as listing the service's tasks *)
(* (read literally, its keyword service_nam is not a parameter of the      *)
(* operation).                                                             *)
(***************************************************************************)
NoService == [tasks |-> <<>>, replacements |-> 0]
ServiceWith(n) == [tasks |-> [t \in 1..n |-> "running"], replacements |-> 0]

HandlerNotInvoked ==
    [pc |-> "idle", taskArns |-> <<>>, task |-> 0, has_running_tasks |-> FALSE,
     stopped |-> <<>>, reported |-> FALSE]

\* describe_services: the service's runningCount.  A task that is being stopped
\* counts until its container has exited.
runningCount(service) ==
    Cardinality({t \in DOMAIN service.tasks : service.tasks[t] # "stopped"})
        + service.replacements

\* lambda_handler, lines 13-22: list_tasks, has_running_tasks = False.
LambdaInvoke ==
    /\ handler.pc = "idle"
    /\ handler' = [handler EXCEPT !.pc = "for", !.task = 1,
                                  !.taskArns = [t \in DOMAIN ecs.tasks |-> t],
                                  !.has_running_tasks = FALSE]
    /\ UNCHANGED <<ecs, tr_rules, cache, cache_expiry, now, calls, req, tr_impl,
                   scheduler, tag, lastOp>>

\* lines 24-26 and the loop test of line 28: stop_task for the next task ARN; the
\* while loop is entered only while has_running_tasks is False.
StopTask ==
    /\ handler.pc = "for"
    /\ handler.task <= Len(handler.taskArns)
    /\ ecs' = [ecs EXCEPT !.tasks[handler.taskArns[handler.task]] =
                              IF @ = "running" THEN "stopping" ELSE @]
    /\ handler' = [handler EXCEPT
                     !.stopped = Append(@, handler.taskArns[handler.task]),
                     !.reported = FALSE,
                     !.pc = IF handler.has_running_tasks THEN "for" ELSE "while",
                     !.task = IF handler.has_running_tasks THEN @ + 1 ELSE @]
    /\ UNCHANGED <<tr_rules, cache, cache_expiry, now, calls, req, tr_impl,
                   scheduler, tag, lastOp>>

\* lines 29-37: sleep(2), describe_services, has_running_tasks = runningCount > 0,
\* and the loop test again.
DescribeServices ==
    LET has_running_tasks == runningCount(ecs) > 0
    IN  /\ handler.pc = "while"
        /\ handler' = [handler EXCEPT
                         !.has_running_tasks = has_running_tasks,
                         !.reported = @ \/ has_running_tasks,
                         !.pc = IF has_running_tasks THEN "for" ELSE "while",
                         !.task = IF has_running_tasks THEN @ + 1 ELSE @]
        /\ UNCHANGED <<ecs, tr_rules, cache, cache_expiry, now, calls, req, tr_impl,
                       scheduler, tag, lastOp>>

\* The for loop is exhausted: the handler returns.
LambdaReturn ==
    /\ handler.pc = "for"
    /\ handler.task > Len(handler.taskArns)
    /\ handler' = [handler EXCEPT !.pc = "returned"]
    /\ UNCHANGED <<ecs, tr_rules, cache, cache_expiry, now, calls, req, tr_impl,
                   scheduler, tag, lastOp>>

\* ECS: the container of a task that was told to stop exits.
TaskExits ==
    /\ \E t \in DOMAIN ecs.tasks :
           /\ ecs.tasks[t] = "stopping"
           /\ ecs' = [ecs EXCEPT !.tasks[t] = "stopped"]
    /\ UNCHANGED <<handler, tr_rules, cache, cache_expiry, now, calls, req, tr_impl,
                   scheduler, tag, lastOp>>

\* ECS: the service scheduler starts a replacement while fewer tasks run than the
\* service desires.
ReplacementStarts ==
    /\ runningCount(ecs) < Len(ecs.tasks)
    /\ ecs' = [ecs EXCEPT !.replacements = @ + 1]
    /\ UNCHANGED <<handler, tr_rules, cache, cache_expiry, now, calls, req, tr_impl,
                   scheduler, tag, lastOp>>

(***************************************************************************)
(* Specifications                                                          *)
(***************************************************************************)
StartProxy(rule_sets, tr_impls, new_scheduler) ==
    /\ tr_rules \in rule_sets
    /\ tr_impl \in tr_impls
    /\ scheduler = new_scheduler
    /\ cache = EmptyMap
    /\ cache_expiry = EmptyMap
    /\ now = 0
    /\ calls = 0
    /\ req = [r \in Requests |-> IdleReq]
    /\ tag = EmptyMap
    /\ lastOp = "other"

\* The proxy on its own: the restart lambda is not invoked.
StartWith(rule_sets, tr_impls, new_scheduler) ==
    /\ StartProxy(rule_sets, tr_impls, new_scheduler)
    /\ ecs = NoService
    /\ handler = HandlerNotInvoked

Start(rule_sets) == StartWith(rule_sets, {DefaultTrImpl}, SchedulerUntimed)

Init == Start(FewRuleSets)

Request == \E r \in Requests, tr_code \in RequestCodes, continue_key \in ContinueKeys :
               GetTrData(r, tr_code, P_ab, continue_key)
Return == \E r \in Requests : CollaboratorReturns(r)
Raise == \E r \in Requests : CollaboratorRaises(r)
Cancel == \E r \in Requests : RequestCancelled(r)
Deliver == \E r \in Requests : Finish(r)

Next ==
    \/ Request
    \/ Return
    \/ Raise
    \/ Cancel
    \/ Deliver
    \/ Tick
    \/ EvictAllCachesAtIntervals

Spec == Init /\ [][Next]_vars

\* One request at a time, by code (body {"a": 1, "b": 2}) or by alias (body
\* {"b": 2, "a": 1}), every rule set.
InitTiers == Start(RuleSets)

RequestAlone == \E tr_code \in RequestCodes, continue_key \in ContinueKeys :
                   GetTrData(1, tr_code, P_ab, continue_key)
RequestByAlias == \E alias \in RequestAliases : GetTrDataByAlias(1, alias, P_ba, None)

NextTiers ==
    \/ RequestAlone
    \/ RequestByAlias
    \/ Return
    \/ Raise
    \/ Cancel
    \/ Deliver
    \/ Tick
    \/ EvictAllCachesAtIntervals

SpecTiers == InitTiers /\ [][NextTiers]_vars

\* Two requests in flight for one code, without continuation key, over every
\* parameter mapping.
InitKeys == Start({<<>>})

RequestKeys == \E r \in Requests, params \in ParamMappings :
                  GetTrData(r, "KA100", params, None)

NextKeys ==
    \/ RequestKeys
    \/ Return
    \/ Raise
    \/ Cancel
    \/ Deliver
    \/ Tick
    \/ EvictAllCachesAtIntervals

SpecKeys == InitKeys /\ [][NextKeys]_vars

InitRepo == Start({<<>>})

RepoRequest == \E r \in Requests, tr_code \in RepoTrCodes, ttl \in RepoTtls :
                   CachedCall(r, tr_code, ttl, P_ab, None)
Evict == \E cache_name \in EvictSelectors : EvictCache(cache_name)

NextRepo ==
    \/ RepoRequest
    \/ Return
    \/ Raise
    \/ Cancel
    \/ Deliver
    \/ Tick
    \/ EvictAllCachesAtIntervals
    \/ Evict

SpecRepo == InitRepo /\ [][NextRepo]_vars

\* The proxy with KbsecTr.request_tr as the collaborator, in each environment.
InitKbsec == StartWith({RulesWithTtl(12)}, TrImpls, SchedulerUntimed)

RequestTrCompletes == \E r \in Requests, java_ok \in BOOLEAN : KbsecRequestTr(r, java_ok)

NextKbsec ==
    \/ RequestAlone
    \/ RequestTrCompletes
    \/ Cancel
    \/ Deliver
    \/ Tick
    \/ EvictAllCachesAtIntervals

SpecKbsec == InitKbsec /\ [][NextKbsec]_vars

\* The process life cycle and the scheduler's job against the wall clock.
InitScheduler == StartWith({RulesWithTtl(12)}, {DefaultTrImpl}, SchedulerInitialized)

NextScheduler ==
    \/ ManagerStart
    \/ ManagerStop
    \/ ProcessRestart
    \/ RequestAlone
    \/ Return
    \/ Raise
    \/ Cancel
    \/ Deliver
    \/ Tick
    \/ EvictAllCachesAtIntervals

SpecScheduler == InitScheduler /\ [][NextScheduler]_vars

\* The proxy behind its middleware: every request is an HTTP request.
InitHttp == Start({RulesWithTtl(12)})

Http == \E r \in Requests, path \in HttpPaths, request_api_key \in ApiKeyHeaders :
            HttpRequest(r, path, request_api_key)

NextHttp ==
    \/ Http
    \/ Return
    \/ Raise
    \/ Cancel
    \/ Deliver
    \/ Tick
    \/ EvictAllCachesAtIntervals

SpecHttp == InitHttp /\ [][NextHttp]_vars

\* The restart lambda, invoked once on a service of up to MaxTasks tasks.
InitRestart ==
    /\ StartProxy({<<>>}, {DefaultTrImpl}, SchedulerUntimed)
    /\ ecs \in {ServiceWith(n) : n \in 0..MaxTasks}
    /\ handler = HandlerNotInvoked

NextRestart ==
    \/ LambdaInvoke
    \/ StopTask
    \/ DescribeServices
    \/ LambdaReturn
    \/ TaskExits
    \/ ReplacementStarts

SpecRestart == InitRestart /\ [][NextRestart]_vars


(***************************************************************************)
(* Claims                                                                  *)
(***************************************************************************)
Entered(r) == req[r].pc # "idle"
Enters(r) == req[r].pc = "idle" /\ req'[r].pc # "idle"
Plain(q) == q.path = "cached" /\ q.continue_key = None

\* C1: a request that carries a continuation key performs no cache look-up and no
\* cache store, and invokes the collaborator exactly once.
C1_ContinuationBypass ==
    \A r \in Requests :
        (Entered(r) /\ req[r].continue_key # None)
            => /\ req[r].lookups = 0
               /\ ~req[r].stored
               /\ req[r].ncalls = 1

\* C2: a request without continuation key, for a code whose tier is T > 0, that
\* arrives less than T seconds after an identical request completed, with no sweep
\* in between, returns the value the first one stored without invoking the
\* collaborator.
C2_RepeatServedFromCache ==
    [][\A r, p \in Requests :
          (/\ Enters(r)
           /\ Plain(req'[r])
           /\ req'[r].ttl_arg > 0
           /\ req[p].pc = "done" /\ Plain(req[p]) /\ ~req[p].swept
           /\ req[p].tr_code = req'[r].tr_code
           /\ req[p].params = req'[r].params
           /\ now < req[p].done_at + req'[r].ttl_arg)
              => /\ req'[r].hit
                 /\ req'[r].result = req[p].result
                 /\ req'[r].ncalls = 0]_vars


\* C3: once V is stored under K with ttl T > 0 at time t0 (and not evicted or
\* overwritten since), a look-up of K at t < t0 + T returns V and a look-up at
\* t >= t0 + T misses.
C3_RoundTrip ==
    [][\A r \in Requests :
          (/\ Enters(r)
           /\ req'[r].cache_key \in DOMAIN cache
           /\ tag[req'[r].cache_key].ttl > 0)
              => LET K == req'[r].cache_key
                     t0 == tag[K].at
                     T == tag[K].ttl
                 IN  /\ now < t0 + T => (req'[r].hit /\ req'[r].result = cache[K])
                     /\ now >= t0 + T => ~req'[r].hit]_vars

\* C4: the scheduled full sweep leaves every entry whose originating code is in
\* the not-evict set in place, with its value and its expiry unchanged.
C4_SweepKeepsExempt ==
    [][lastOp' = "sweep"
          => \A key \in DOMAIN cache :
                 tag[key].tr_code \in get_not_evict_tr_codes
                     => /\ key \in DOMAIN cache' /\ cache'[key] = cache[key]
                        /\ key \in DOMAIN cache_expiry'
                        /\ cache_expiry'[key] = cache_expiry[key]]_vars

\* C5: right after a full sweep the cache holds no value and no expiry record whose
\* originating code is outside the not-evict set.
C5_SweepRemovesNonExempt ==
    lastOp = "sweep"
        => \A key \in DOMAIN cache \cup DOMAIN cache_expiry :
               /\ key \in DOMAIN tag
               /\ tag[key].tr_code \in get_not_evict_tr_codes

C5_Witness ==
    /\ lastOp = "sweep"
    /\ \E r \in Requests :
           /\ req[r].pc = "done" /\ req[r].stored /\ req[r].swept
           /\ req[r].tr_code \notin get_not_evict_tr_codes
           /\ req[r].cache_key \notin DOMAIN cache

\* C6: for a code outside the not-evict set, a raw ttl t >= 2 is cached with the
\* largest tier <= t, 0 < t < 2 with 30, and t = 0 is not cached.
TierSet == {86400, 28800, 3600, 1800, 600, 60, 30, 10, 3, 2}
LargestTierAtMost(t) ==
    CHOOSE x \in TierSet : x <= t /\ \A y \in TierSet : y <= t => y <= x

C6_TierOfRawTtl ==
    \A r \in Requests :
        (Entered(r) /\ req[r].tr_code \notin get_not_evict_tr_codes)
            => LET t == get_cache_ttl(tr_rules, req[r].tr_code)
               IN  /\ t >= 2 => (req[r].path = "cached"
                                 /\ req[r].ttl_arg = LargestTierAtMost(t))
                   /\ (0 < t /\ t < 2) => (req[r].path = "cached" /\ req[r].ttl_arg = 30)
                   /\ t = 0 => req[r].path = "direct"

\* C7: whatever its configured raw ttl, a request for a code of the not-evict set
\* is cached with tier 86400, and the sweep treats the code's entries as exempt.
C7_ExemptionOverride ==
    /\ [](\A r \in Requests :
             (Entered(r) /\ req[r].tr_code \in get_not_evict_tr_codes)
                 => /\ req[r].path = "cached"
                    /\ req[r].ttl_arg = 86400
                    /\ req[r].stored => tag[req[r].cache_key].ttl = 86400)
    /\ [][lastOp' = "sweep"
             => \A key \in DOMAIN cache :
                    tag[key].tr_code \in get_not_evict_tr_codes
                        => key \in DOMAIN cache']_vars

\* C8: a request for a code outside the not-evict set whose configured ttl is 0
\* invokes the collaborator exactly once, looks nothing up, and none of its steps
\* changes the cache or the expiry map.
NoCache(q) ==
    /\ q.pc # "idle"
    /\ q.tr_code \notin get_not_evict_tr_codes
    /\ get_cache_ttl(tr_rules, q.tr_code) = 0

C8_NoCachePassthrough ==
    [][\A r \in Requests :
          /\ NoCache(req'[r])
                => (req'[r].ncalls = 1 /\ req'[r].lookups = 0 /\ ~req'[r].stored)
          /\ (req'[r].pc # req[r].pc /\ (NoCache(req[r]) \/ NoCache(req'[r])))
                => UNCHANGED <<cache, cache_expiry>>]_vars

C8_Witness ==
    /\ cache # EmptyMap
    /\ \E r \in Requests : NoCache(req[r]) /\ req[r].pc = "done"

\* C9: two parameter mappings with the same key-value pairs in a different
\* insertion order (nested mappings included) give the same cache key.
RECURSIVE AsMapping(_)
AsMapping(d) ==
    {[k |-> d[i].k, t |-> d[i].v.t, i |-> d[i].v.i, m |-> AsMapping(d[i].v.d)]
        : i \in DOMAIN d}

C9_KeyStability ==
    \A r, p \in Requests :
        (/\ Entered(r) /\ Entered(p)
         /\ req[r].tr_code = req[p].tr_code
         /\ req[r].continue_key = None /\ req[p].continue_key = None
         /\ AsMapping(req[r].params) = AsMapping(req[p].params))
            => req[r].cache_key = req[p].cache_key

\* C10: a request is answered from the cache only if the entry's expiry is
\* strictly later than the clock; an entry with now >= expiry is a miss, for codes
\* of the not-evict set as for any other.
C10_VisibleOnlyBeforeExpiry ==
    [][\A r \in Requests :
          Enters(r)
              => LET key == req'[r].cache_key
                 IN  /\ req'[r].hit
                           => (key \in DOMAIN cache_expiry /\ cache_expiry[key] > now)
                     /\ (key \in DOMAIN cache_expiry /\ now >= cache_expiry[key])
                           => ~req'[r].hit]_vars

C10_Witness ==
    \E r, p \in Requests :
        /\ req[r].hit /\ req[r].tr_code \in get_not_evict_tr_codes
        /\ Entered(p) /\ ~req[p].hit /\ req[p].cache_key = req[r].cache_key
        /\ req[p].current_time > req[r].current_time

\* C11: a request writes the cache only when its collaborator call returns: the
\* steps of a request whose call raises or that is cancelled while it waits (its
\* entry, its failure) leave the cache and the expiry map as they were, and every
\* other change of the two maps is a sweep or the store of a returning request.
C11_NoWriteWithoutReturn ==
    [][/\ \A r \in Requests :
             (\/ Enters(r)
              \/ (req[r].pc = "awaiting" /\ req'[r].pc \in {"failed", "idle"}))
                 => UNCHANGED <<cache, cache_expiry>>
       /\ (cache' # cache \/ cache_expiry' # cache_expiry)
             => \/ lastOp' = "sweep"
                \/ \E r \in Requests :
                       /\ req[r].pc = "awaiting" /\ req'[r].pc = "done"
                       /\ req'[r].stored
                       /\ cache' = Put(cache, req[r].cache_key, req'[r].result)]_vars

C11_Witness ==
    /\ cache # EmptyMap
    /\ \E r \in Requests :
           /\ req[r].pc = "failed" /\ req[r].path = "cached"
           /\ req[r].cache_key \in DOMAIN cache

\* C12: when the back end fails (the gateway is missing, or the Java request
\* raises), the request ends as a failure, never with a response value, and no
\* cache entry holds an error result (a body with resultCode "500").
C12_BackendFailureSurfaced ==
    /\ \A r \in Requests : req[r].pc = "done" => req[r].result.resultCode # "500"
    /\ \A key \in DOMAIN cache : cache[key].resultCode # "500"

\* C13: a request by an alias that maps to no code ends with status 404, which
\* differs from the status 500 of a collaborator failure; it does not enter
\* _get_tr_data (no look-up), does not invoke the collaborator and leaves the cache
\* and the expiry map unchanged.
C13_UnknownAliasNotFound ==
    [][\A r \in Requests :
          (Enters(r) /\ req'[r].path = "notfound")
              => /\ req'[r].pc = "failed"
                 /\ req'[r].status = 404
                 /\ req'[r].status # endpoint_status(ManagerErrorStatus)
                 /\ req'[r].lookups = 0
                 /\ req'[r].ncalls = 0
                 /\ UNCHANGED <<cache, cache_expiry, calls>>]_vars

\* C14: a store made with ttl <= 0 changes neither the cache nor the expiry map.
C14_StoreWithoutTtlIsNoOp ==
    [][\A r \in Requests :
          (/\ req[r].pc = "awaiting" /\ req'[r].pc = "done"
           /\ req[r].path = "cached"
           /\ req[r].deco_ttl <= 0)
              => UNCHANGED <<cache, cache_expiry>>]_vars

\* C15: the expiry of every entry stored by a request for code c is the time of
\* the store plus the tier resolved for c.
C15_ExpiryIsStoreTimePlusTier ==
    \A key \in DOMAIN cache_expiry :
        cache_expiry[key] = tag[key].at + tag[key].ttl_arg

\* C16: every run of the sweep takes place at an 08:00:00 instant, no instant sees
\* two runs, and a running scheduler that met an 08:00:00 instant has run the sweep
\* at it when the clock moves on or the scheduler is shut down.
HasRunAt(t) == \E i \in DOMAIN scheduler.job_runs : scheduler.job_runs[i].at = t

C17_NoSweepOutsideRunNoBackfill ==
    /\ [](\A i \in DOMAIN scheduler.job_runs :
             /\ scheduler.job_runs[i].due = scheduler.job_runs[i].at
             /\ scheduler.job_runs[i].since < scheduler.job_runs[i].at)
    /\ [][lastOp' = "sweep" => (scheduler.state = "running" /\ scheduler.timed)]_vars

C17_Witness ==
    /\ scheduler.state = "running"
    /\ \E i \in DOMAIN scheduler.job_runs :
           /\ scheduler.job_runs[i].since > 0
           /\ scheduler.job_runs[i].at = now

\* C18: with a sweep interleaved with requests in flight, the cache and the expiry
\* map hold the same keys at every look-up, a store puts its value under its key in
\* both maps, and an entry stays until a sweep removes it: a sweep never removes
\* what is stored after it.  (Each map is a function: one entry per key.)
StoreStep(r) ==
    /\ req[r].pc = "awaiting" /\ req'[r].pc = "done" /\ req[r].path = "cached"

C18_SweepAtomic ==
    /\ [](DOMAIN cache = DOMAIN cache_expiry)
    /\ [][/\ \A r \in Requests :
                 StoreStep(r)
                     => /\ req[r].cache_key \in DOMAIN cache'
                        /\ cache'[req[r].cache_key] = req'[r].result
                        /\ req[r].cache_key \in DOMAIN cache_expiry'
           /\ \A key \in DOMAIN cache :
                 lastOp' # "sweep"
                     => (key \in DOMAIN cache' /\ key \in DOMAIN cache_expiry')]_vars

C18_Witness ==
    \E r, p \in Requests :
        /\ req[p].pc = "done" /\ req[p].stored /\ req[p].swept
        /\ req[r].pc = "done" /\ req[r].stored /\ ~req[r].swept
        /\ req[r].call_id < req[p].call_id
        /\ req[r].cache_key \in DOMAIN cache
        /\ cache[req[r].cache_key] = req[r].result

\* C19: two requests without continuation key that miss on the same key while
\* both are in flight invoke the collaborator once each (twice in total), each
\* returns the result of its own call, and once both have stored (and no sweep
\* came since) the cache holds one entry for the key, the result of one of them.
MissedOn(q) == q.path = "cached" /\ q.continue_key = None /\ ~q.hit
\* r entered first and p entered before r was done.
Overlapped(r, p) ==
    /\ req[r].pc \in {"awaiting", "done"} /\ req[p].pc \in {"awaiting", "done"}
    /\ MissedOn(req[r]) /\ MissedOn(req[p])
    /\ req[r].cache_key = req[p].cache_key
    /\ req[r].call_id < req[p].call_id
    /\ \/ req[r].pc = "awaiting"
       \/ req[r].done_at > req[p].current_time
       \/ (req[p].pc = "done" /\ req[p].done_at < req[r].done_at)

C19_SimultaneousMisses ==
    \A r, p \in Requests :
        Overlapped(r, p)
            => /\ req[r].ncalls + req[p].ncalls = 2
               /\ \A q \in {r, p} :
                      req[q].pc = "done" => (/\ req[q].result.id = req[q].call_id
                                            /\ req[q].status = HttpOk)
               /\ (/\ req[r].pc = "done" /\ req[p].pc = "done"
                   /\ ~req[r].swept /\ ~req[p].swept)
                     => /\ req[r].cache_key \in DOMAIN cache
                        /\ cache[req[r].cache_key] \in {req[r].result, req[p].result}

C19_Witness ==
    \E r, p \in Requests :
        /\ Overlapped(r, p)
        /\ req[r].pc = "done" /\ req[p].pc = "done"
        /\ ~req[r].swept /\ ~req[p].swept
        /\ req[p].done_at < req[r].done_at
        /\ cache[req[r].cache_key] = req[r].result

\* C20: an evict_cache step with a selector removes every entry, expired or not,
\* whose originating code the selector names, from both maps, and leaves every
\* other entry with its value and its expiry.
C20_TargetedEviction ==
    [][\A cache_name \in EvictSelectors \ {None} :
          EvictCache(cache_name)
              => \A key \in DOMAIN cache :
                     IF tag[key].tr_code = cache_name
                     THEN key \notin DOMAIN cache' /\ key \notin DOMAIN cache_expiry'
                     ELSE /\ key \in DOMAIN cache' /\ cache'[key] = cache[key]
                          /\ key \in DOMAIN cache_expiry'
                          /\ cache_expiry'[key] = cache_expiry[key]]_vars

\* C21: when the rules file is missing or malformed the rule set is empty, and
\* every code a request names resolves to the 30-second tier and is not exempt
\* from the scheduled sweep.
C21_NoRulesFileDefaultTier ==
    (tr_rules \in {load_cache_config(MissingFile), load_cache_config(MalformedFile)})
        => /\ tr_rules = <<>>
           /\ \A r \in Requests :
                 (Entered(r) /\ req[r].path # "notfound")
                     => /\ req[r].path = "cached"
                        /\ req[r].ttl_arg = 30
                        /\ req[r].tr_code \notin get_not_evict_tr_codes

\* C22: no retries: a request invokes the collaborator when it enters, once on a
\* miss, on a continuation request and on a no-cache code and not at all on a
\* hit, and no later step of a request (its return, its failure) invokes it
\* again.
C22_NoRetries ==
    [][/\ \A r \in Requests :
             (Enters(r) /\ req'[r].path # "notfound")
                 => /\ calls' - calls = (IF req'[r].hit THEN 0 ELSE 1)
                    /\ req'[r].ncalls = calls' - calls
       /\ calls' # calls => \E r \in Requests : Enters(r)
       /\ \A r \in Requests : ~Enters(r) => req'[r].ncalls \in {0, req[r].ncalls}]_vars

C22_Witness ==
    \E r, p \in Requests :
        /\ req[r].pc = "failed" /\ req[r].path = "cached" /\ req[r].ncalls = 1
        /\ req[p].pc = "done" /\ req[p].continue_key # None /\ req[p].ncalls = 1
        /\ calls = 2

\* C23: a cacheable request whose parameters cannot be encoded into a cache key
\* ends in a failure on entry, without a look-up and without a collaborator call,
\* and nothing is stored for it: the step leaves the cache and the expiry map as
\* they were, the failed request does nothing more, and no cache entry holds a
\* response to such parameters.
C23_UnencodableParamsFail ==
    [][/\ \A r \in Requests :
             (Enters(r) /\ req'[r].path = "cached"
                        /\ ~json_serializable(req'[r].params))
                 => /\ req'[r].pc = "failed"
                    /\ req'[r].status = ManagerErrorStatus
                    /\ req'[r].lookups = 0
                    /\ req'[r].ncalls = 0 /\ calls' = calls
                    /\ UNCHANGED <<cache, cache_expiry>>
       /\ \A r \in Requests :
             (req[r].pc = "failed" /\ ~json_serializable(req[r].params))
                 => /\ req'[r] \in {req[r], IdleReq}
                    /\ req'[r] # req[r] => UNCHANGED <<cache, cache_expiry>>
       /\ \A key \in DOMAIN cache' : json_serializable(cache'[key].params)]_vars

C23_Witness ==
    \E r, p \in Requests :
        /\ req[r].pc = "failed" /\ req[r].path = "cached"
        /\ ~json_serializable(req[r].params)
        /\ req[p].pc = "done" /\ req[p].stored
        /\ calls = 1

\* C24: requests that differ in code, in a parameter key or value, or in
\* continuation key never share a cache key, and a value returned from the cache
\* was fetched for the code, the parameters (up to their order) and the
\* continuation key of the request it is returned to.
C24_KeySeparatesRequests ==
    /\ \A r, p \in Requests :
          (/\ Entered(r) /\ req[r].lookups = 1
           /\ Entered(p) /\ req[p].lookups = 1
           /\ \/ req[r].tr_code # req[p].tr_code
              \/ AsMapping(req[r].params) # AsMapping(req[p].params)
              \/ req[r].continue_key # req[p].continue_key)
              => req[r].cache_key # req[p].cache_key
    /\ \A r \in Requests :
          req[r].hit => /\ req[r].result.tr_code = req[r].tr_code
                        /\ AsMapping(req[r].result.params) = AsMapping(req[r].params)
                        /\ req[r].result.continue_key = req[r].continue_key

\* C25: an HTTP request whose path is not one of the public paths and whose
\* API-key header differs from the configured key is answered with 403 and
\* reaches neither the cache nor the collaborator.
PublicPathSet == {public_paths[n] : n \in 1..Len(public_paths)}

C25_ApiKeyRequired ==
    [][\A r \in Requests, path \in HttpPaths, request_api_key \in ApiKeyHeaders :
          (/\ HttpRequest(r, path, request_api_key)
           /\ path \notin PublicPathSet
           /\ request_api_key # AUTH_TOKEN)
              => /\ req'[r].status = ForbiddenStatus
                 /\ req'[r].lookups = 0
                 /\ req'[r].ncalls = 0
                 /\ UNCHANGED <<cache, cache_expiry, calls>>]_vars

\* C26: for every configured raw ttl and every exemption status, the ttl an entry
\* is stored with (the span from the wrapper's clock reading to the entry's
\* expiry) is one of the ten tiers.
C26_StoredTtlIsATier ==
    \A key \in DOMAIN cache :
        /\ tag[key].ttl \in TierSet
        /\ \E ttl \in TierSet, current_time \in 0..now :
               cache_expiry[key] = StoreExpiry(current_time, ttl)

\* C27: a look-up does not change the cache: the step on which a request enters
\* the wrapper, hit or miss, leaves the cache and the expiry map as they were (a
\* hit does not extend the expiry, a miss on an expired entry does not remove
\* it), and an entry changes or goes only by a store, an evict_cache call or a
\* sweep.
C27_LookupDoesNotMutate ==
    [][/\ \A r \in Requests :
             (Enters(r) /\ req'[r].lookups = 1)
                 => /\ UNCHANGED <<cache, cache_expiry>>
                    /\ req'[r].hit => req'[r].result = cache[req'[r].cache_key]
       /\ \A key \in DOMAIN cache :
             (\/ key \notin DOMAIN cache'
              \/ key \notin DOMAIN cache_expiry'
              \/ cache'[key] # cache[key]
              \/ cache_expiry'[key] # cache_expiry[key])
                 => \/ lastOp' = "sweep"
                    \/ \E cache_name \in EvictSelectors : EvictCache(cache_name)
                    \/ \E r \in Requests :
                           /\ req[r].pc = "awaiting" /\ req'[r].pc = "done"
                           /\ req'[r].stored /\ req[r].cache_key = key]_vars

C27_Witness ==
    \E r, p \in Requests :
        /\ req[p].pc = "done" /\ req[p].hit
        /\ req[p].cache_key \in DOMAIN cache_expiry
        /\ cache_expiry[req[p].cache_key] = StoreExpiry(0, req[p].deco_ttl)
        /\ req[r].pc = "awaiting"
        /\ req[r].cache_key \in DOMAIN cache
        /\ cache_expiry[req[r].cache_key] <= req[r].current_time

\* C28: a request by alias goes to the code of the last rule, in the order of the
\* configuration, that declares the alias; an alias no rule declares, the empty
\* alias of a rule included, resolves to no code.
Declaring(alias) ==
    {n \in 1..Len(RuleOrder) :
        /\ RuleOrder[n] \in DOMAIN tr_rules
        /\ alias # ""
        /\ tr_rules[RuleOrder[n]].alias = alias}
LastDeclaring(alias) ==
    RuleOrder[CHOOSE n \in Declaring(alias) : \A m \in Declaring(alias) : m <= n]

C28_AliasLastWriteWins ==
    [][\A alias \in RequestAliases :
          GetTrDataByAlias(1, alias, P_ba, None)
              => /\ Declaring(alias) = {}
                    => /\ get_tr_code_by_alias(tr_rules, alias) = None
                       /\ req'[1].path = "notfound"
                 /\ Declaring(alias) # {}
                    => /\ get_tr_code_by_alias(tr_rules, alias) = LastDeclaring(alias)
                       /\ req'[1].tr_code = LastDeclaring(alias)]_vars

C28_Witness ==
    /\ Cardinality(Declaring("quote")) = 2
    /\ req[1].pc = "awaiting"
    /\ req[1].params = P_ba
    /\ req[1].tr_code = LastDeclaring("quote")

\* C29: after any interleaving of requests, evict_cache calls and sweeps, the
\* cache and the expiry map hold the same keys: no value without an expiry and
\* no expiry without a value.
C29_SameKeySets ==
    /\ \A key \in DOMAIN cache : key \in DOMAIN cache_expiry
    /\ \A key \in DOMAIN cache_expiry : key \in DOMAIN cache

C29_Witness ==
    /\ cache # EmptyMap
    /\ \E key \in DOMAIN cache_expiry : cache_expiry[key] > now
    /\ \E r \in Requests : req[r].swept

\* C30: after a sweep, no cache entry of a code outside the not-evict set holds a
\* response whose collaborator call started before that sweep.  (Request p was
\* answered before the last sweep and asked the collaborator after request r
\* did; r was answered after that sweep: r was awaiting when the sweep ran.)
AwaitedAcrossSweep(r, p) ==
    /\ req[p].pc = "done" /\ req[p].ncalls = 1 /\ req[p].swept
    /\ req[r].path = "cached" /\ req[r].ncalls = 1
    /\ req[r].call_id < req[p].call_id
    /\ req[r].tr_code \notin get_not_evict_tr_codes

C30_NoPreSweepResponseCached ==
    \A r, p \in Requests :
        (AwaitedAcrossSweep(r, p) /\ req[r].pc = "done" /\ ~req[r].swept)
            => ~(/\ req[r].cache_key \in DOMAIN cache
                 /\ cache[req[r].cache_key] = req[r].result)

\* C30, amended: a request that was awaiting the collaborator when a sweep ran
\* stores its response when the call returns: after the sweep the cache holds,
\* under that request's key, the response of a call that started before the
\* sweep, with the expiry counted from the request's entry.
C30_InFlightResponseStoredAfterSweep ==
    [][\A r, p \in Requests :
          (AwaitedAcrossSweep(r, p) /\ StoreStep(r))
              => /\ req[r].cache_key \in DOMAIN cache'
                 /\ cache'[req[r].cache_key] = req'[r].result
                 /\ req'[r].result.id = req[r].call_id
                 /\ req[r].cache_key \in DOMAIN cache_expiry'
                 /\ cache_expiry'[req[r].cache_key]
                        = StoreExpiry(req[r].current_time, req[r].deco_ttl)]_vars

C30_Witness ==
    \E r, p \in Requests :
        /\ AwaitedAcrossSweep(r, p)
        /\ req[r].pc = "done" /\ ~req[r].swept
        /\ req[r].cache_key \in DOMAIN cache
        /\ cache[req[r].cache_key] = req[r].result
        /\ cache_expiry[req[r].cache_key] > now

\* C31: for a code outside the not-evict set whose configured ttl t is not 0, the
\* tier _get_tr_data caches the request with is CACHE_TTL_MAP of the cache name
\* get_cache_name_by_ttl gives for t.
C31_TierMappingsAgree ==
    \A r \in Requests :
        (/\ Entered(r) /\ req[r].path # "notfound"
         /\ req[r].tr_code \notin get_not_evict_tr_codes
         /\ get_cache_ttl(tr_rules, req[r].tr_code) # 0)
            => /\ req[r].path = "cached"
               /\ req[r].ttl_arg =
                      CACHE_TTL_MAP[get_cache_name_by_ttl(
                                        get_cache_ttl(tr_rules, req[r].tr_code))]

C33_StopsOneTaskAtATime ==
    /\ [](handler.pc = "returned" => handler.stopped = handler.taskArns)
    /\ [][(Len(handler'.stopped) > Len(handler.stopped) /\ handler.stopped # <<>>)
              => handler.reported]_vars

====
